---------------------------- MODULE Spec2Model ----------------------------
(***************************************************************************)
(* A model of src/main.py: the four tool functions, the pydantic input     *)
(* schemas that guard them, the dispatcher call_tool and the conversation  *)
(* loop handle_conversation.                                               *)
(*                                                                         *)
(* A Python str is a sequence of one-character strings, so that formatting *)
(* (str(), f-strings, date.isoformat) and parsing (the schema's date and   *)
(* int validators, eval) are computed character by character.  A Python    *)
(* value is a tuple whose first element is its type tag:                   *)
(*   <<"str", chars>>  <<"int", n>>  <<"bool", b>>  <<"none">>             *)
(*   <<"float", num, den>>  (the exact quotient num/den, den > 0)          *)
(*   <<"date", y, m, d>>                                                   *)
(* A dict is a sequence of <<key, value>> pairs.  A computation that may   *)
(* raise yields <<"ok", value>> or <<"raise", class, message>>.            *)
(***************************************************************************)
EXTENDS Integers, Sequences, FiniteSets, TLC

VARIABLES
    pc,         \* where handle_conversation is: idle (not called), await (line 184),
                \* dispatch (line 195), done (it returned), raised (an exception left it)
    messages,   \* the transcript (local variable messages, line 180)
    assistant_message, \* the turn the chat service answered last (line 190)
    idx,        \* index of the next tool call of that turn (the for loop, line 195)
    sent,       \* the transcripts passed to client.chat.complete so far (line 186)
    printed,    \* the lines written by print (lines 179, 198, 201, 209)
    tool_name,  \* call_tool's argument tool_name of the latest invocation
    params,     \* call_tool's argument params of the latest invocation
    outcome,    \* what that invocation of call_tool did
    prev        \* the invocation before it, when the latest one was built from its result

vars == <<pc, messages, assistant_message, idx, sent, printed, tool_name, params, outcome, prev>>

-----------------------------------------------------------------------------
(* Python strings and integers *)

Digits == <<"0", "1", "2", "3", "4", "5", "6", "7", "8", "9">>

IsDigit(c) == \E i \in 1..10 : Digits[i] = c

DigitVal(c) == (CHOOSE i \in 1..10 : Digits[i] = c) - 1

RECURSIVE NatToStr(_)
\* str(n) for n >= 0
NatToStr(n) ==
    IF n < 10 THEN <<Digits[n + 1]>>
    ELSE NatToStr(n \div 10) \o <<Digits[(n % 10) + 1]>>

\* str(n) of a Python int
IntToStr(n) == IF n < 0 THEN <<"-">> \o NatToStr(-n) ELSE NatToStr(n)

RECURSIVE ZeroPad(_, _)
\* "%0<w>d" % n for n >= 0
ZeroPad(s, w) == IF Len(s) >= w THEN s ELSE ZeroPad(<<"0">> \o s, w)

AllDigits(s) == Len(s) > 0 /\ \A i \in 1..Len(s) : IsDigit(s[i])

RECURSIVE DigitsToNat(_)
DigitsToNat(s) ==
    IF s = <<>> THEN 0
    ELSE 10 * DigitsToNat(SubSeq(s, 1, Len(s) - 1)) + DigitVal(s[Len(s)])

\* the decimal integer literals the int validator and int() accept: [-]digits
IsIntLiteral(s) ==
    \/ AllDigits(s)
    \/ Len(s) > 1 /\ s[1] = "-" /\ AllDigits(Tail(s))

ParseInt(s) == IF s[1] = "-" THEN 0 - DigitsToNat(Tail(s)) ELSE DigitsToNat(s)

\* digits after the decimal point that str(float) is followed to
FracDigits == 16

RECURSIVE FracStr(_, _, _)
\* the decimal digits of r/den (0 <= r < den), at most k of them
FracStr(r, den, k) ==
    IF r = 0 \/ k = 0 THEN <<>>
    ELSE <<Digits[((10 * r) \div den) + 1]>> \o FracStr((10 * r) % den, den, k - 1)

\* str(x) of the float num/den (den > 0): the decimal expansion is exact when it
\* ends within FracDigits digits and cut there when it does not (the rounding of
\* a double to its shortest repr is not followed)
FloatStr(num, den) ==
    LET a == IF num < 0 THEN 0 - num ELSE num
        frac == FracStr(a % den, den, FracDigits)
    IN  (IF num < 0 THEN <<"-">> ELSE <<>>) \o NatToStr(a \div den) \o <<".">>
            \o (IF frac = <<>> THEN <<"0">> ELSE frac)

-----------------------------------------------------------------------------
(* datetime.date and datetime.timedelta *)

MINYEAR == 1
MAXYEAR == 9999
\* timedelta(days=n) needs |n| <= 999999999
MaxDeltaDays == 999999999

IsLeap(y) == y % 4 = 0 /\ (y % 100 # 0 \/ y % 400 = 0)

\* days in month m of a leap or a common year
MonthLength(leap, m) ==
    IF m = 2 THEN (IF leap THEN 29 ELSE 28)
    ELSE IF m \in {4, 6, 9, 11} THEN 30 ELSE 31

DaysInMonth(y, m) == MonthLength(IsLeap(y), m)

\* number of days before January 1st of year y
DaysBeforeYear(y) ==
    LET p == y - 1 IN p * 365 + (p \div 4) - (p \div 100) + (p \div 400)

RECURSIVE DaysBefore(_, _)
\* number of days of a leap or a common year before the first day of month m
DaysBefore(leap, m) ==
    IF m <= 1 THEN 0 ELSE DaysBefore(leap, m - 1) + MonthLength(leap, m - 1)

\* number of days in year y before the first day of month m
DaysBeforeMonth(y, m) == DaysBefore(IsLeap(y), m)

\* date.toordinal(): 0001-01-01 is day 1
Ymd2Ord(y, m, d) == DaysBeforeYear(y) + DaysBeforeMonth(y, m) + d

\* date.max.toordinal()
MaxOrdinal == Ymd2Ord(MAXYEAR, 12, 31)

\* days in 400, 100 and 4 years
DI400Y == DaysBeforeYear(401)
DI100Y == DaysBeforeYear(101)
DI4Y == DaysBeforeYear(5)

\* date.fromordinal(n), as datetime._ord2ymd computes it
Ord2Ymd(n) ==
    LET n0 == n - 1
        n400 == n0 \div DI400Y
        r400 == n0 % DI400Y
        n100 == r400 \div DI100Y
        r100 == r400 % DI100Y
        n4 == r100 \div DI4Y
        r4 == r100 % DI4Y
        n1 == r4 \div 365
        r1 == r4 % 365
        year == n400 * 400 + 1 + n100 * 100 + n4 * 4 + n1
        leapyear == n1 = 3 /\ (n4 # 24 \/ n100 = 3)
        month0 == (r1 + 50) \div 32
        preceding0 == DaysBefore(leapyear, month0)
        month == IF preceding0 > r1 THEN month0 - 1 ELSE month0
        preceding == DaysBefore(leapyear, month)
    IN  IF n1 = 4 \/ n100 = 4 THEN <<"date", year - 1, 12, 31>>
        ELSE <<"date", year, month, r1 - preceding + 1>>

DateOrd(dt) == Ymd2Ord(dt[2], dt[3], dt[4])

\* str(date): date.isoformat(), "%04d-%02d-%02d"
DateStr(dt) ==
    ZeroPad(NatToStr(dt[2]), 4) \o <<"-">> \o ZeroPad(NatToStr(dt[3]), 2)
        \o <<"-">> \o ZeroPad(NatToStr(dt[4]), 2)

\* "date value out of range"
MsgDateRange == <<"d", "a", "t", "e", " ", "v", "a", "l", "u", "e", " ", "o", "u", "t", " ", "o", "f", " ", "r", "a", "n", "g", "e">>
\* "days; must have magnitude <= 999999999"
MsgDeltaRange == <<"d", "a", "y", "s", ";", " ", "m", "u", "s", "t", " ", "h", "a", "v", "e", " ", "m", "a", "g", "n", "i", "t", "u", "d", "e", " ", "<", "=", " ", "9", "9", "9", "9", "9", "9", "9", "9", "9">>

\* timedelta(days=n)
TimeDelta(n) ==
    IF n > MaxDeltaDays \/ n < 0 - MaxDeltaDays
    THEN <<"raise", "OverflowError", MsgDeltaRange>>
    ELSE <<"ok", n>>

\* date + timedelta(days=n) for a timedelta that exists
DatePlus(dt, n) ==
    LET o == DateOrd(dt) + n
    IN  IF 0 < o /\ o <= MaxOrdinal THEN <<"ok", Ord2Ymd(o)>>
        ELSE <<"raise", "OverflowError", MsgDateRange>>

\* (d2 - d1).days
DateMinusDays(d2, d1) == DateOrd(d2) - DateOrd(d1)

\* the date validator on a string: YYYY-MM-DD naming a day that exists
IsIsoDate(s) ==
    /\ Len(s) = 10
    /\ s[5] = "-" /\ s[8] = "-"
    /\ \A i \in {1, 2, 3, 4, 6, 7, 9, 10} : IsDigit(s[i])
    /\ LET y == DigitsToNat(SubSeq(s, 1, 4))
           m == DigitsToNat(SubSeq(s, 6, 7))
           d == DigitsToNat(SubSeq(s, 9, 10))
       IN  /\ MINYEAR <= y /\ y <= MAXYEAR
           /\ 1 <= m /\ m <= 12
           /\ 1 <= d /\ d <= DaysInMonth(y, m)

ParseIsoDate(s) ==
    <<"date", DigitsToNat(SubSeq(s, 1, 4)), DigitsToNat(SubSeq(s, 6, 7)),
      DigitsToNat(SubSeq(s, 9, 10))>>

-----------------------------------------------------------------------------
(* str.lower and str.count *)

UpperLetters == <<"A", "B", "C", "D", "E", "F", "G", "H", "I", "J", "K", "L", "M", "N", "O", "P", "Q", "R", "S", "T", "U", "V", "W", "X", "Y", "Z">>
LowerLetters == <<"a", "b", "c", "d", "e", "f", "g", "h", "i", "j", "k", "l", "m", "n", "o", "p", "q", "r", "s", "t", "u", "v", "w", "x", "y", "z">>

IsLetter(c) == \E i \in 1..26 : UpperLetters[i] = c \/ LowerLetters[i] = c

\* c.lower() of one (ASCII) character
LowerChar(c) ==
    IF \E i \in 1..26 : UpperLetters[i] = c
    THEN LowerLetters[CHOOSE i \in 1..26 : UpperLetters[i] = c]
    ELSE c

\* s.lower()
StrLower(s) == [i \in 1..Len(s) |-> LowerChar(s[i])]

\* sub occurs in s at position i
OccursAt(s, sub, i) ==
    i >= 1 /\ i + Len(sub) - 1 <= Len(s) /\ SubSeq(s, i, i + Len(sub) - 1) = sub

RECURSIVE CountFrom(_, _, _)
\* the scan of str.count from position i: a match is counted and stepped over
CountFrom(s, sub, i) ==
    IF i + Len(sub) - 1 > Len(s) THEN 0
    ELSE IF OccursAt(s, sub, i) THEN 1 + CountFrom(s, sub, i + Len(sub))
    ELSE CountFrom(s, sub, i + 1)

\* s.count(sub); the empty string is counted once between any two characters
\* and once at each end
StrCount(s, sub) == IF sub = <<>> THEN Len(s) + 1 ELSE CountFrom(s, sub, 1)

-----------------------------------------------------------------------------
(* eval(expression), line 56.  The expressions followed are those of the   *)
(* grammar                                                                 *)
(*    expr  ::= term  { ("+" | "-") term }                                 *)
(*    term  ::= unary { ("*" | "/") unary }                                *)
(*    unary ::= "-" unary | atom { "(" ")" }                               *)
(*    atom  ::= digits | "'" chars "'" | name | "(" expr ")"               *)
(* with blanks between tokens; any other text is a SyntaxError here.  The  *)
(* text is compiled first (tokens, then an operator-precedence parse into  *)
(* a tree) and evaluated only when it parses, left to right.  The names    *)
(* bound are None and exit (site's Quitter, whose call raises SystemExit). *)
(* The messages of the exceptions are abbreviated.                         *)

\* index after the run of digits (letters) that starts at i
RECURSIVE EndOfDigits(_, _)
EndOfDigits(s, i) == IF i <= Len(s) /\ IsDigit(s[i]) THEN EndOfDigits(s, i + 1) ELSE i

RECURSIVE EndOfName(_, _)
EndOfName(s, i) == IF i <= Len(s) /\ IsLetter(s[i]) THEN EndOfName(s, i + 1) ELSE i

\* index of the quote closing a string literal opened before i, or 0
RECURSIVE ClosingQuote(_, _)
ClosingQuote(s, i) ==
    IF i > Len(s) THEN 0 ELSE IF s[i] = "'" THEN i ELSE ClosingQuote(s, i + 1)

RECURSIVE Tokenize(_, _)
\* the tokens of s from index i on; <<"bad">> stands for text that is no token
Tokenize(s, i) ==
    IF i > Len(s) THEN <<>>
    ELSE IF s[i] = " " THEN Tokenize(s, i + 1)
    ELSE IF IsDigit(s[i]) THEN
        LET j == EndOfDigits(s, i)
            lit == SubSeq(s, i, j - 1)
        IN  \* a decimal literal has no leading zero, unless it is all zeros
            IF lit[1] = "0" /\ DigitsToNat(lit) # 0 THEN << <<"bad">> >>
            ELSE << <<"num", DigitsToNat(lit)>> >> \o Tokenize(s, j)
    ELSE IF s[i] = "'" THEN
        LET j == ClosingQuote(s, i + 1)
        IN  IF j = 0 THEN << <<"bad">> >>
            ELSE << <<"strlit", SubSeq(s, i + 1, j - 1)>> >> \o Tokenize(s, j + 1)
    ELSE IF IsLetter(s[i]) THEN
        LET j == EndOfName(s, i)
        IN  << <<"name", SubSeq(s, i, j - 1)>> >> \o Tokenize(s, j)
    ELSE IF s[i] \in {"+", "-", "*", "/", "(", ")"} THEN << <<"op", s[i]>> >> \o Tokenize(s, i + 1)
    ELSE << <<"bad">> >>

\* binding strength of a pending operator; an open parenthesis binds nothing
Prec(op) == CASE op \in {"+", "-"} -> 1 [] op \in {"*", "/"} -> 2 [] op = "neg" -> 3 [] OTHER -> 0

\* the tree stack after the pending operator op has taken its operands
ApplyOp(out, op) ==
    IF op = "neg"
    THEN SubSeq(out, 1, Len(out) - 1) \o << <<"neg", out[Len(out)]>> >>
    ELSE SubSeq(out, 1, Len(out) - 2) \o << <<"bin", op, out[Len(out) - 1], out[Len(out)]>> >>

RECURSIVE Reduce(_, _, _)
\* <<trees, pending operators>> after the pending operators that bind at least
\* as strongly as min have taken their operands
Reduce(out, ops, min) ==
    IF ops # <<>> /\ Prec(ops[Len(ops)]) >= min /\ ops[Len(ops)] # "("
    THEN Reduce(ApplyOp(out, ops[Len(ops)]), SubSeq(ops, 1, Len(ops) - 1), min)
    ELSE <<out, ops>>

RECURSIVE Parse(_, _, _, _, _)
\* the parse of tokens toks from index i on, with the trees and the pending
\* operators so far; operand says that an operand must come next.
\* <<"ok", tree>> or <<"err", <<>>>>
Parse(toks, i, out, ops, operand) ==
    IF i > Len(toks) THEN
        LET r == Reduce(out, ops, 1)
        IN  IF ~operand /\ r[2] = <<>> /\ Len(r[1]) = 1 THEN <<"ok", r[1][1]>>
            ELSE <<"err", <<>>>>
    ELSE LET t == toks[i]
         IN  IF t[1] = "bad" THEN <<"err", <<>>>>
             ELSE IF operand THEN
                 IF t[1] # "op" THEN Parse(toks, i + 1, Append(out, t), ops, FALSE)
                 ELSE IF t[2] = "-" THEN Parse(toks, i + 1, out, Append(ops, "neg"), TRUE)
                 ELSE IF t[2] = "(" THEN Parse(toks, i + 1, out, Append(ops, "("), TRUE)
                 ELSE <<"err", <<>>>>
             ELSE IF t[1] # "op" THEN <<"err", <<>>>>
             ELSE IF t[2] = "(" THEN
                 \* a call without arguments of what was just read
                 IF i < Len(toks) /\ toks[i + 1] = <<"op", ")">>
                 THEN Parse(toks, i + 2,
                            SubSeq(out, 1, Len(out) - 1) \o << <<"call", out[Len(out)]>> >>,
                            ops, FALSE)
                 ELSE <<"err", <<>>>>
             ELSE IF t[2] = ")" THEN
                 LET r == Reduce(out, ops, 1)
                 IN  IF r[2] = <<>> THEN <<"err", <<>>>>
                     ELSE Parse(toks, i + 1, r[1], SubSeq(r[2], 1, Len(r[2]) - 1), FALSE)
             ELSE LET r == Reduce(out, ops, Prec(t[2]))
                  IN  Parse(toks, i + 1, r[1], Append(r[2], t[2]), TRUE)

\* compile(expression, "<string>", "eval"): the whole text must be one expression
Compile(s) == Parse(Tokenize(s, 1), 1, <<>>, <<>>, TRUE)

\* "invalid syntax"
MsgSyntax == <<"i", "n", "v", "a", "l", "i", "d", " ", "s", "y", "n", "t", "a", "x">>
\* "division by zero"
MsgZeroDiv == <<"d", "i", "v", "i", "s", "i", "o", "n", " ", "b", "y", " ", "z", "e", "r", "o">>
\* "unsupported operand type(s)"
MsgOperand == <<"u", "n", "s", "u", "p", "p", "o", "r", "t", "e", "d", " ", "o", "p", "e", "r", "a", "n", "d", " ", "t", "y", "p", "e", "(", "s", ")">>
\* "object is not callable"
MsgNotCallable == <<"o", "b", "j", "e", "c", "t", " ", "i", "s", " ", "n", "o", "t", " ", "c", "a", "l", "l", "a", "b", "l", "e">>
\* "name is not defined"
MsgName == <<"n", "a", "m", "e", " ", "i", "s", " ", "n", "o", "t", " ", "d", "e", "f", "i", "n", "e", "d">>
\* "None"
NameNone == <<"N", "o", "n", "e">>
\* "exit"
NameExit == <<"e", "x", "i", "t">>

IsNumber(v) == v[1] \in {"int", "float"}

Numer(v) == v[2]
Denom(v) == IF v[1] = "int" THEN 1 ELSE v[3]

RECURSIVE StrRepeat(_, _)
\* s * n
StrRepeat(s, n) == IF n <= 0 THEN <<>> ELSE s \o StrRepeat(s, n - 1)

\* a op b for two values
BinOp(op, a, b) ==
    IF IsNumber(a) /\ IsNumber(b) THEN
        IF op = "/" THEN
            IF Numer(b) = 0 THEN <<"raise", "ZeroDivisionError", MsgZeroDiv>>
            ELSE IF Numer(b) > 0
                 THEN <<"ok", <<"float", Numer(a) * Denom(b), Denom(a) * Numer(b)>>>>
                 ELSE <<"ok", <<"float", 0 - Numer(a) * Denom(b), 0 - Denom(a) * Numer(b)>>>>
        ELSE IF a[1] = "int" /\ b[1] = "int" THEN
            <<"ok", <<"int", CASE op = "+" -> a[2] + b[2]
                              [] op = "-" -> a[2] - b[2]
                              [] OTHER -> a[2] * b[2]>>>>
        ELSE
            <<"ok", <<"float",
                      CASE op = "+" -> Numer(a) * Denom(b) + Numer(b) * Denom(a)
                        [] op = "-" -> Numer(a) * Denom(b) - Numer(b) * Denom(a)
                        [] OTHER -> Numer(a) * Numer(b),
                      Denom(a) * Denom(b)>>>>
    ELSE IF op = "+" /\ a[1] = "str" /\ b[1] = "str" THEN <<"ok", <<"str", a[2] \o b[2]>>>>
    ELSE IF op = "*" /\ a[1] = "str" /\ b[1] = "int" THEN <<"ok", <<"str", StrRepeat(a[2], b[2])>>>>
    ELSE IF op = "*" /\ a[1] = "int" /\ b[1] = "str" THEN <<"ok", <<"str", StrRepeat(b[2], a[2])>>>>
    ELSE <<"raise", "TypeError", MsgOperand>>

RECURSIVE EvalTree(_)
\* the value of a compiled expression: <<"ok", value>> or <<"raise", class, message>>
EvalTree(t) ==
    CASE t[1] = "num" -> <<"ok", <<"int", t[2]>>>>
      [] t[1] = "strlit" -> <<"ok", <<"str", t[2]>>>>
      [] t[1] = "name" ->
            IF t[2] = NameNone THEN <<"ok", <<"none">>>>
            ELSE IF t[2] = NameExit THEN <<"ok", <<"object", NameExit>>>>
            ELSE <<"raise", "NameError", MsgName>>
      [] t[1] = "call" ->
            LET f == EvalTree(t[2])
            IN  IF f[1] # "ok" THEN f
                ELSE IF f[2][1] = "object" THEN <<"raise", "SystemExit", NameNone>>
                ELSE <<"raise", "TypeError", MsgNotCallable>>
      [] t[1] = "neg" ->
            LET v == EvalTree(t[2])
            IN  IF v[1] # "ok" THEN v
                ELSE IF v[2][1] = "int" THEN <<"ok", <<"int", 0 - v[2][2]>>>>
                ELSE IF v[2][1] = "float" THEN <<"ok", <<"float", 0 - v[2][2], v[2][3]>>>>
                ELSE <<"raise", "TypeError", MsgOperand>>
      [] OTHER ->
            LET l == EvalTree(t[3])
            IN  IF l[1] # "ok" THEN l
                ELSE LET r == EvalTree(t[4])
                     IN  IF r[1] # "ok" THEN r ELSE BinOp(t[2], l[2], r[2])

\* eval(expression)
PyEval(s) ==
    LET c == Compile(s)
    IN  IF c[1] = "ok" THEN EvalTree(c[2]) ELSE <<"raise", "SyntaxError", MsgSyntax>>

\* "Use exit() or Ctrl-D (i.e. EOF) to exit"
QuitterStr == <<"U", "s", "e", " ", "e", "x", "i", "t", "(", ")", " ", "o", "r", " ", "C", "t", "r", "l", "-", "D", " ", "(", "i", ".", "e", ".", " ", "E", "O", "F", ")", " ", "t", "o", " ", "e", "x", "i", "t">>

\* str(v)
PyStr(v) ==
    CASE v[1] = "int" -> IntToStr(v[2])
      [] v[1] = "float" -> FloatStr(v[2], v[3])
      [] v[1] = "str" -> v[2]
      [] v[1] = "none" -> NameNone
      [] v[1] = "date" -> DateStr(v)
      [] OTHER -> QuitterStr

\* issubclass(class, Exception): what "except Exception" catches
IsException(class) == class \notin {"SystemExit", "KeyboardInterrupt", "GeneratorExit"}

-----------------------------------------------------------------------------
(* dicts and the pydantic field validators (lax mode) *)

HasKey(d, k) == \E i \in 1..Len(d) : d[i][1] = k

\* d.get(k): the value under k, None when the key is absent
Get(d, k) == IF HasKey(d, k) THEN d[CHOOSE i \in 1..Len(d) : d[i][1] = k][2] ELSE <<"none">>

\* the items of a dict, none for a value that is no dict
Items(p) == IF p[1] = "dict" THEN p[2] ELSE <<>>

\* str: a string only
FieldStr(v) == IF v[1] = "str" THEN <<"ok", v>> ELSE <<"bad">>

\* float: a number, or a string that reads as one (integer literals are followed)
FieldFloat(v) ==
    CASE v[1] = "int" -> <<"ok", <<"float", v[2], 1>>>>
      [] v[1] = "bool" -> <<"ok", <<"float", IF v[2] THEN 1 ELSE 0, 1>>>>
      [] v[1] = "str" ->
            IF IsIntLiteral(v[2]) THEN <<"ok", <<"float", ParseInt(v[2]), 1>>>> ELSE <<"bad">>
      [] OTHER -> <<"bad">>

\* int: an integer, or a string that reads as one
FieldInt(v) ==
    CASE v[1] = "int" -> <<"ok", v>>
      [] v[1] = "bool" -> <<"ok", <<"int", IF v[2] THEN 1 ELSE 0>>>>
      [] v[1] = "str" ->
            IF IsIntLiteral(v[2]) THEN <<"ok", <<"int", ParseInt(v[2])>>>> ELSE <<"bad">>
      [] OTHER -> <<"bad">>

\* bool: a bool, or 0 or 1
FieldBool(v) ==
    CASE v[1] = "bool" -> <<"ok", v>>
      [] v[1] = "int" -> IF v[2] \in {0, 1} THEN <<"ok", <<"bool", v[2] = 1>>>> ELSE <<"bad">>
      [] OTHER -> <<"bad">>

\* date: a string YYYY-MM-DD naming a day that exists
FieldDate(v) ==
    IF v[1] = "str" /\ IsIsoDate(v[2]) THEN <<"ok", ParseIsoDate(v[2])>> ELSE <<"bad">>

\* FieldEnum with the membership test lost: any string passes
FieldEnum_AnyString(v, members) == IF v[1] = "str" THEN <<"ok", v>> ELSE <<"bad">>

\* a str Enum: the value of one of its members
FieldEnum(v, members) ==
    IF v[1] = "str" /\ v[2] \in members THEN <<"ok", v>> ELSE <<"bad">>

\* a field declared Field(...): required
Required(d, k, checked) == IF HasKey(d, k) THEN checked ELSE <<"bad">>

\* a field declared Field(default): the default stands in when the key is absent
Optional(d, k, checked, default) == IF HasKey(d, k) THEN checked ELSE <<"ok", default>>

\* " validation error"
MsgValidation == <<" ", "v", "a", "l", "i", "d", "a", "t", "i", "o", "n", " ", "e", "r", "r", "o", "r">>
\* " for "
MsgFor == <<" ", "f", "o", "r", " ">>

\* str(ValidationError): its first line, "<n> validation error[s] for <class>"
ValidationMsg(n, class) ==
    NatToStr(n) \o MsgValidation \o (IF n > 1 THEN <<"s">> ELSE <<>>) \o MsgFor \o class

\* Model(**params): the fields when every one of them validates
Construct(class, p, fields) ==
    IF p[1] # "dict" THEN <<"raise", "TypeError", <<"a", "r", "g", "u", "m", "e", "n", "t", " ", "a", "f", "t", "e", "r", " ", "*", "*", " ", "m", "u", "s", "t", " ", "b", "e", " ", "a", " ", "m", "a", "p", "p", "i", "n", "g">>>>
    ELSE LET bad == {k \in DOMAIN fields : fields[k][1] # "ok"}
         IN  IF bad = {} THEN <<"ok", [k \in DOMAIN fields |-> fields[k][2]]>>
             ELSE <<"raise", "ValidationError", ValidationMsg(Cardinality(bad), class)>>

-----------------------------------------------------------------------------
(* Step 1: the input schemas, lines 10-48 *)

\* "MathInput"
ClsMathInput == <<"M", "a", "t", "h", "I", "n", "p", "u", "t">>
\* "UnitConversionInput"
ClsUnitConversionInput == <<"U", "n", "i", "t", "C", "o", "n", "v", "e", "r", "s", "i", "o", "n", "I", "n", "p", "u", "t">>
\* "DateInput"
ClsDateInput == <<"D", "a", "t", "e", "I", "n", "p", "u", "t">>
\* "TextAnalysisInput"
ClsTextAnalysisInput == <<"T", "e", "x", "t", "A", "n", "a", "l", "y", "s", "i", "s", "I", "n", "p", "u", "t">>

MathInput(p) ==
    Construct(ClsMathInput, p,
        [expression |-> Required(Items(p), "expression", FieldStr(Get(Items(p), "expression")))])

km == <<"k", "m">>
m == <<"m">>
cm == <<"c", "m">>
miles == <<"m", "i", "l", "e", "s">>
yards == <<"y", "a", "r", "d", "s">>
feet == <<"f", "e", "e", "t">>
inches == <<"i", "n", "c", "h", "e", "s">>

LengthUnit == {km, m, cm, miles, yards, feet, inches}

UnitConversionInput(p) ==
    Construct(ClsUnitConversionInput, p,
        [value |-> Required(Items(p), "value", FieldFloat(Get(Items(p), "value"))),
         from_unit |-> Required(Items(p), "from_unit", FieldEnum(Get(Items(p), "from_unit"), LengthUnit)),
         to_unit |-> Required(Items(p), "to_unit", FieldEnum(Get(Items(p), "to_unit"), LengthUnit))])

get_current == <<"g", "e", "t", "_", "c", "u", "r", "r", "e", "n", "t">>
add_days == <<"a", "d", "d", "_", "d", "a", "y", "s">>
subtract_days == <<"s", "u", "b", "t", "r", "a", "c", "t", "_", "d", "a", "y", "s">>
diff_days == <<"d", "i", "f", "f", "_", "d", "a", "y", "s">>

DateOperation == {get_current, add_days, subtract_days, diff_days}

None == <<"none">>

DateInput(p) ==
    Construct(ClsDateInput, p,
        [operation |-> Required(Items(p), "operation", FieldEnum(Get(Items(p), "operation"), DateOperation)),
         base_date |-> Optional(Items(p), "base_date", FieldDate(Get(Items(p), "base_date")), None),
         days |-> Optional(Items(p), "days", FieldInt(Get(Items(p), "days")), None),
         second_date |-> Optional(Items(p), "second_date", FieldDate(Get(Items(p), "second_date")), None)])

TextAnalysisInput(p) ==
    Construct(ClsTextAnalysisInput, p,
        [text |-> Required(Items(p), "text", FieldStr(Get(Items(p), "text"))),
         character |-> Required(Items(p), "character", FieldStr(Get(Items(p), "character"))),
         case_sensitive |-> Optional(Items(p), "case_sensitive",
                                     FieldBool(Get(Items(p), "case_sensitive")), <<"bool", FALSE>>)])

-----------------------------------------------------------------------------
(* Step 2: the tool functions, lines 52-109.  Each yields <<"ok", value>>   *)
(* or <<"raise", class, message>>.                                         *)

\* "Invalid expression: "
MsgInvalidExpression == <<"I", "n", "v", "a", "l", "i", "d", " ", "e", "x", "p", "r", "e", "s", "s", "i", "o", "n", ":", " ">>

math_tool(input) ==
    LET result == PyEval(input.expression[2])
    IN  IF result[1] = "ok" THEN result
        ELSE IF IsException(result[2])
        THEN <<"raise", "ValueError", MsgInvalidExpression \o result[3]>>
        ELSE result

RECURSIVE Gcd(_, _)
Gcd(a, b) == IF b = 0 THEN a ELSE Gcd(b, a % b)

\* conversion_to_m, lines 62-70, each factor as the fraction <<numerator, denominator>>
conversion_to_m(unit) ==
    CASE unit = km -> <<1000, 1>>
      [] unit = m -> <<1, 1>>
      [] unit = cm -> <<1, 100>>
      [] unit = miles -> <<80467, 50>>
      [] unit = yards -> <<1143, 1250>>
      [] unit = feet -> <<381, 1250>>
      [] unit = inches -> <<127, 5000>>

\* "Invalid unit specified"
MsgInvalidUnit == <<"I", "n", "v", "a", "l", "i", "d", " ", "u", "n", "i", "t", " ", "s", "p", "e", "c", "i", "f", "i", "e", "d">>

\* value * factor(from) / factor(to), as an exact fraction
unit_conversion_tool(input) ==
    IF input.from_unit[2] \notin LengthUnit \/ input.to_unit[2] \notin LengthUnit
    THEN <<"raise", "ValueError", MsgInvalidUnit>>
    ELSE LET f == conversion_to_m(input.from_unit[2])
             t == conversion_to_m(input.to_unit[2])
             gn == Gcd(f[1], t[1])
             gd == Gcd(f[2], t[2])
         IN  <<"ok", <<"float",
                       input.value[2] * (f[1] \div gn) * (t[2] \div gd),
                       input.value[3] * (f[2] \div gd) * (t[1] \div gn)>>>>

\* "base_date and days are required for add_days"
MsgAddDays == <<"b", "a", "s", "e", "_", "d", "a", "t", "e", " ", "a", "n", "d", " ", "d", "a", "y", "s", " ", "a", "r", "e", " ", "r", "e", "q", "u", "i", "r", "e", "d", " ", "f", "o", "r", " ", "a", "d", "d", "_", "d", "a", "y", "s">>
\* "base_date and days are required for subtract_days"
MsgSubtractDays == <<"b", "a", "s", "e", "_", "d", "a", "t", "e", " ", "a", "n", "d", " ", "d", "a", "y", "s", " ", "a", "r", "e", " ", "r", "e", "q", "u", "i", "r", "e", "d", " ", "f", "o", "r", " ", "s", "u", "b", "t", "r", "a", "c", "t", "_", "d", "a", "y", "s">>
\* "base_date and second_date are required for diff_days"
MsgDiffDays == <<"b", "a", "s", "e", "_", "d", "a", "t", "e", " ", "a", "n", "d", " ", "s", "e", "c", "o", "n", "d", "_", "d", "a", "t", "e", " ", "a", "r", "e", " ", "r", "e", "q", "u", "i", "r", "e", "d", " ", "f", "o", "r", " ", "d", "i", "f", "f", "_", "d", "a", "y", "s">>
\* "Invalid date operation"
MsgInvalidOperation == <<"I", "n", "v", "a", "l", "i", "d", " ", "d", "a", "t", "e", " ", "o", "p", "e", "r", "a", "t", "i", "o", "n">>

\* base_date + timedelta(days=n), line 87
AddDays(base, n) ==
    LET td == TimeDelta(n)
    IN  IF td[1] # "ok" THEN td
        ELSE LET nd == DatePlus(base, td[2])
             IN  IF nd[1] # "ok" THEN nd ELSE <<"ok", <<"str", DateStr(nd[2])>>>>

\* base_date - timedelta(days=n), line 92
SubtractDays(base, n) ==
    LET td == TimeDelta(n)
    IN  IF td[1] # "ok" THEN td
        ELSE LET nd == DatePlus(base, 0 - td[2])
             IN  IF nd[1] # "ok" THEN nd ELSE <<"ok", <<"str", DateStr(nd[2])>>>>

\* DiffDays with the operands of the subtraction exchanged
DiffDays_Swapped(base, second) == <<"ok", <<"str", IntToStr(DateMinusDays(base, second))>>>>

\* str((second_date - base_date).days), lines 97-98
DiffDays(base, second) == <<"ok", <<"str", IntToStr(DateMinusDays(second, base))>>>>

\* date_tool with the base_date test made before the operation is looked at
date_tool_BaseDateFirst(input, today) ==
    IF input.base_date = None THEN <<"raise", "ValueError", MsgAddDays>>
    ELSE IF input.operation[2] = get_current THEN <<"ok", <<"str", DateStr(today)>>>>
    ELSE IF input.operation[2] = add_days THEN
        IF input.days = None THEN <<"raise", "ValueError", MsgAddDays>>
        ELSE AddDays(input.base_date, input.days[2])
    ELSE IF input.operation[2] = subtract_days THEN
        IF input.days = None THEN <<"raise", "ValueError", MsgSubtractDays>>
        ELSE SubtractDays(input.base_date, input.days[2])
    ELSE IF input.operation[2] = diff_days THEN
        IF input.second_date = None THEN <<"raise", "ValueError", MsgDiffDays>>
        ELSE DiffDays(input.base_date, input.second_date)
    ELSE <<"raise", "ValueError", MsgInvalidOperation>>

\* today is what date.today() answers
date_tool(input, today) ==
    IF input.operation[2] = get_current THEN <<"ok", <<"str", DateStr(today)>>>>
    ELSE IF input.operation[2] = add_days THEN
        IF input.base_date = None \/ input.days = None
        THEN <<"raise", "ValueError", MsgAddDays>>
        ELSE AddDays(input.base_date, input.days[2])
    ELSE IF input.operation[2] = subtract_days THEN
        IF input.base_date = None \/ input.days = None
        THEN <<"raise", "ValueError", MsgSubtractDays>>
        ELSE SubtractDays(input.base_date, input.days[2])
    ELSE IF input.operation[2] = diff_days THEN
        IF input.base_date = None \/ input.second_date = None
        THEN <<"raise", "ValueError", MsgDiffDays>>
        ELSE DiffDays(input.base_date, input.second_date)
    ELSE <<"raise", "ValueError", MsgInvalidOperation>>

\* "The character '"
TxtTheCharacter == <<"T", "h", "e", " ", "c", "h", "a", "r", "a", "c", "t", "e", "r", " ", "'">>
\* "' appears "
TxtAppears == <<"'", " ", "a", "p", "p", "e", "a", "r", "s", " ">>
\* " times in '"
TxtTimesIn == <<" ", "t", "i", "m", "e", "s", " ", "i", "n", " ", "'">>

\* text_analysis_tool with only the text lowercased
text_analysis_tool_CharacterAsGiven(input) ==
    LET text == IF input.case_sensitive[2] THEN input.text[2] ELSE StrLower(input.text[2])
        count == StrCount(text, input.character[2])
    IN  <<"ok", <<"str", TxtTheCharacter \o input.character[2] \o TxtAppears
                         \o IntToStr(count) \o TxtTimesIn \o input.text[2] \o <<"'">>>>>>

text_analysis_tool(input) ==
    LET text == IF input.case_sensitive[2] THEN input.text[2] ELSE StrLower(input.text[2])
        character == IF input.case_sensitive[2] THEN input.character[2]
                     ELSE StrLower(input.character[2])
        count == StrCount(text, character)
    IN  <<"ok", <<"str", TxtTheCharacter \o input.character[2] \o TxtAppears
                         \o IntToStr(count) \o TxtTimesIn \o input.text[2] \o <<"'">>>>>>

-----------------------------------------------------------------------------
(* Step 5: call_tool, lines 155-173 *)

\* "math"
ToolMath == <<"m", "a", "t", "h">>
\* "unit_conversion"
ToolUnitConversion == <<"u", "n", "i", "t", "_", "c", "o", "n", "v", "e", "r", "s", "i", "o", "n">>
\* "date_tool"
ToolDate == <<"d", "a", "t", "e", "_", "t", "o", "o", "l">>
\* "text_analysis"
ToolTextAnalysis == <<"t", "e", "x", "t", "_", "a", "n", "a", "l", "y", "s", "i", "s">>

RegisteredTools == {ToolMath, ToolUnitConversion, ToolDate, ToolTextAnalysis}

\* "Error: "
ErrorPrefix == <<"E", "r", "r", "o", "r", ":", " ">>
\* "Unknown tool: "
MsgUnknownTool == <<"U", "n", "k", "n", "o", "w", "n", " ", "t", "o", "o", "l", ":", " ">>

\* what one invocation of call_tool did: the string it returned or the exception
\* that left it (class), the schema it tried to construct and whether that
\* succeeded, the tool function it ran and the value that function returned
Returned(ret, class, schema, built, ran, value) ==
    [status |-> "returned", ret |-> ret, class |-> class, schema |-> schema,
     built |-> built, ran |-> ran, value |-> value]

Escaped(class, schema, built, ran) ==
    [status |-> "raised", ret |-> <<>>, class |-> class, schema |-> schema,
     built |-> built, ran |-> ran, value |-> <<"absent">>]

\* before call_tool has been entered
NotCalled ==
    [status |-> "pending", ret |-> <<>>, class |-> "", schema |-> <<>>,
     built |-> FALSE, ran |-> <<>>, value |-> <<"absent">>]

\* lines 172-173: an Exception becomes "Error: " + str(e), anything else leaves
Handle(e, schema, built, ran) ==
    IF IsException(e[2])
    THEN Returned(ErrorPrefix \o e[3], e[2], schema, built, ran, <<"absent">>)
    ELSE Escaped(e[2], schema, built, ran)

\* one branch of call_tool: v is the constructed input, r what the tool function
\* yields on it
Branch(schema, ran, v, r) ==
    IF v[1] # "ok" THEN Handle(v, schema, FALSE, <<>>)
    ELSE IF r[1] # "ok" THEN Handle(r, schema, TRUE, ran)
    ELSE Returned(PyStr(r[2]), "", schema, TRUE, ran, r[2])

\* call_tool with its last elif written as else: a name that is not registered
\* runs text_analysis
call_tool_LastBranchElse(name, p, today) ==
    IF name = ToolMath THEN
        LET v == MathInput(p)
        IN  Branch(ClsMathInput, ToolMath, v, IF v[1] = "ok" THEN math_tool(v[2]) ELSE v)
    ELSE IF name = ToolUnitConversion THEN
        LET v == UnitConversionInput(p)
        IN  Branch(ClsUnitConversionInput, ToolUnitConversion, v,
                   IF v[1] = "ok" THEN unit_conversion_tool(v[2]) ELSE v)
    ELSE IF name = ToolDate THEN
        LET v == DateInput(p)
        IN  Branch(ClsDateInput, ToolDate, v, IF v[1] = "ok" THEN date_tool(v[2], today) ELSE v)
    ELSE LET v == TextAnalysisInput(p)
         IN  Branch(ClsTextAnalysisInput, ToolTextAnalysis, v,
                    IF v[1] = "ok" THEN text_analysis_tool(v[2]) ELSE v)

call_tool(name, p, today) ==
    IF name = ToolMath THEN
        LET v == MathInput(p)
        IN  Branch(ClsMathInput, ToolMath, v, IF v[1] = "ok" THEN math_tool(v[2]) ELSE v)
    ELSE IF name = ToolUnitConversion THEN
        LET v == UnitConversionInput(p)
        IN  Branch(ClsUnitConversionInput, ToolUnitConversion, v,
                   IF v[1] = "ok" THEN unit_conversion_tool(v[2]) ELSE v)
    ELSE IF name = ToolDate THEN
        LET v == DateInput(p)
        IN  Branch(ClsDateInput, ToolDate, v, IF v[1] = "ok" THEN date_tool(v[2], today) ELSE v)
    ELSE IF name = ToolTextAnalysis THEN
        LET v == TextAnalysisInput(p)
        IN  Branch(ClsTextAnalysisInput, ToolTextAnalysis, v,
                   IF v[1] = "ok" THEN text_analysis_tool(v[2]) ELSE v)
    ELSE Handle(<<"raise", "ValueError", MsgUnknownTool \o name>>, <<>>, FALSE, <<>>)

-----------------------------------------------------------------------------
(* Step 6: handle_conversation, lines 177-210 *)

\* rounds of the loop followed (the loop itself has no bound)
MaxRounds == 2

\* "user", "assistant", "tool"
RoleUser == <<"u", "s", "e", "r">>
RoleAssistant == <<"a", "s", "s", "i", "s", "t", "a", "n", "t">>
RoleTool == <<"t", "o", "o", "l">>

\* a message of the transcript; a field a message does not carry is empty
Message(role, content, tool_call_id, tool_calls) ==
    [role |-> role, content |-> content, tool_call_id |-> tool_call_id,
     tool_calls |-> tool_calls]

\* line 180
UserMessage(query) == Message(RoleUser, query, <<>>, <<>>)

\* lines 203-207
ToolMessage(id, result) == Message(RoleTool, result, id, <<>>)

\* what the chat service answers: response.choices[0].message
AssistantMessage(content, tool_calls) == Message(RoleAssistant, content, <<>>, tool_calls)

\* AppendMessage putting the message first
AppendMessage_Front(msgs, msg) == <<msg>> \o msgs

\* messages.append(msg), lines 191 and 203
AppendMessage(msgs, msg) == Append(msgs, msg)

\* a tool call of an assistant turn; function.arguments is a text, followed as
\* <<"json", value>> (the JSON encoding of value) or <<"malformed">> (no JSON)
ToolCall(id, name, arguments) == [id |-> id, name |-> name, arguments |-> arguments]

\* "Expecting value"
MsgJson == <<"E", "x", "p", "e", "c", "t", "i", "n", "g", " ", "v", "a", "l", "u", "e">>

\* json.loads(arguments), line 197
JsonLoads(arguments) ==
    IF arguments[1] = "json" THEN <<"ok", arguments[2]>>
    ELSE <<"raise", "JSONDecodeError", MsgJson>>

Dict(items) == <<"dict", items>>
Str(s) == <<"str", s>>
PyInt(n) == <<"int", n>>
PyBool(b) == <<"bool", b>>

\* the queries, the answers and the calls the chat service is let to make
Queries == { <<"H", "e", "l", "l", "o", ",", " ", "h", "o", "w", " ", "a", "r", "e", " ", "y", "o", "u", "?">>, <<"W", "h", "a", "t", " ", "i", "s", " ", "5", " ", "+", " ", "3", " ", "*", " ", "2", "?">> }

Contents == { <<>>, <<"1", "1">> }

CallIds == { <<"a">>, <<"b">> }

\* "foo", not a registered tool
ToolFoo == <<"f", "o", "o">>

\* a call that succeeds, one the dispatcher answers with an error string, one
\* whose arguments are no JSON, and one whose expression raises SystemExit
Requests ==
    { <<ToolMath, <<"json", Dict(<< <<"expression", Str(<<"5", " ", "+", " ", "3", " ", "*", " ", "2">>)>> >>)>> >>,
      <<ToolFoo, <<"json", Dict(<<>>)>> >>,
      <<ToolMath, <<"malformed">> >>,
      <<ToolMath, <<"json", Dict(<< <<"expression", Str(<<"e", "x", "i", "t", "(", ")">>)>> >>)>> >> }

ToolCalls == { ToolCall(id, r[1], r[2]) : id \in CallIds, r \in Requests }

\* an assistant turn: an answer and no tool call, or one or two tool calls
AssistantTurns ==
    { AssistantMessage(c, <<>>) : c \in Contents }
        \cup { AssistantMessage(<<>>, <<t>>) : t \in ToolCalls }
        \cup { AssistantMessage(<<>>, <<t, u>>) : t \in ToolCalls, u \in ToolCalls }

\* what date.today() may answer
Todays == { <<"date", 2026, 11, 4>>, <<"date", 2024, 2, 29>> }

NoMessage == Message(<<>>, <<>>, <<>>, <<>>)

\* lines 179-180: handle_conversation(user_query) is entered
HandleConversation ==
    /\ pc = "idle"
    /\ \E query \in Queries :
        /\ printed' = Append(printed, <<"User Query", query>>)
        /\ messages' = <<UserMessage(query)>>
    /\ pc' = "await"
    /\ UNCHANGED <<assistant_message, idx, sent, tool_name, params, outcome, prev>>

\* lines 184-193 and 208-210: the request is answered by an assistant turn
Complete ==
    /\ pc = "await"
    /\ Len(sent) < MaxRounds
    /\ sent' = Append(sent, messages)
    /\ \E turn \in AssistantTurns :
        /\ assistant_message' = turn
        /\ messages' = AppendMessage(messages, turn)
        /\ IF turn.tool_calls # <<>>
           THEN /\ pc' = "dispatch"
                /\ idx' = 1
                /\ printed' = printed
           ELSE /\ pc' = "done"
                /\ idx' = 0
                /\ printed' = Append(printed, <<"Agent Response", turn.content>>)
    /\ UNCHANGED <<tool_name, params, outcome, prev>>

\* line 184: the request fails (network, authentication, rate limit); nothing
\* catches the exception
CompleteFails ==
    /\ pc = "await"
    /\ Len(sent) < MaxRounds
    /\ sent' = Append(sent, messages)
    /\ pc' = "raised"
    /\ UNCHANGED <<messages, assistant_message, idx, printed, tool_name, params, outcome, prev>>

\* lines 195-207: one pass of the for loop over the turn's tool calls
DispatchCall ==
    /\ pc = "dispatch"
    /\ LET tool_call == assistant_message.tool_calls[idx]
           loaded == JsonLoads(tool_call.arguments)
       IN  IF loaded[1] # "ok"
           THEN \* json.loads raised, outside call_tool's try
                /\ pc' = "raised"
                /\ UNCHANGED <<messages, idx, printed, tool_name, params, outcome>>
           ELSE \E today \in Todays :
                LET result == call_tool(tool_call.name, loaded[2], today)
                    decided == <<"Agent decided to use tool", tool_call.name, loaded[2]>>
                IN  /\ tool_name' = tool_call.name
                    /\ params' = loaded[2]
                    /\ outcome' = result
                    /\ IF result.status = "raised"
                       THEN \* what call_tool does not catch leaves the loop too
                            /\ pc' = "raised"
                            /\ printed' = Append(printed, decided)
                            /\ UNCHANGED <<messages, idx>>
                       ELSE /\ printed' = printed \o <<decided, <<"Tool result", result.ret>>>>
                            /\ messages' = AppendMessage(messages,
                                                         ToolMessage(tool_call.id, result.ret))
                            /\ IF idx < Len(assistant_message.tool_calls)
                               THEN pc' = "dispatch" /\ idx' = idx + 1
                               ELSE pc' = "await" /\ idx' = 0
    /\ UNCHANGED <<assistant_message, sent, prev>>

Init ==
    /\ pc = "idle"
    /\ messages = <<>>
    /\ assistant_message = NoMessage
    /\ idx = 0
    /\ sent = <<>>
    /\ printed = <<>>
    /\ tool_name = <<>>
    /\ params = None
    /\ outcome = NotCalled
    /\ prev = <<>>

Next == HandleConversation \/ Complete \/ CompleteFails \/ DispatchCall

Spec == Init /\ [][Next]_vars

-----------------------------------------------------------------------------
(* call_tool on its own: the tool names and the argument mappings it is    *)
(* given, and a diff_days request built from the result of an add_days or  *)
(* subtract_days request                                                   *)

\* longest text and longest character string given to text_analysis
MaxTextLen == 3
MaxCharLen == 2
\* day counts -MaxDays..MaxDays are given to add_days and subtract_days
MaxDays == 3

\* the strings over alphabet of length at most n
RECURSIVE StringsUpTo(_, _)
StringsUpTo(alphabet, n) ==
    IF n = 0 THEN {<<>>}
    ELSE LET shorter == StringsUpTo(alphabet, n - 1)
         IN  shorter \cup {Append(s, c) : s \in shorter, c \in alphabet}

Absent == <<"absent">>

\* the dict of the pairs whose value is not Absent
MakeDict(pairs) == Dict(SelectSeq(pairs, LAMBDA kv : kv[2] # Absent))

\* "Math", "parsec", "KM", "noop": no tool, no unit, no operation
ToolMathCapital == <<"M", "a", "t", "h">>
Parsec == <<"p", "a", "r", "s", "e", "c">>
KmCapital == <<"K", "M">>
Noop == <<"n", "o", "o", "p">>

ToolNames == RegisteredTools \cup {ToolFoo, ToolMathCapital, <<>>}

Expressions ==
    { <<"5", " ", "+", " ", "3", " ", "*", " ", "2">>, <<"1", "0", " ", "/", " ", "4">>, <<"2", " ", "*", " ", "(", "3", " ", "+", " ", "4", ")", " ", "-", " ", "2", "0">>, <<"-", "(", "2", " ", "-", " ", "5", ")">>, <<"1", " ", "/", " ", "0">>, <<"5", " ", "+">>,
      <<"(", "1", " ", "+", " ", "2">>, <<>>, <<"x", " ", "+", " ", "1">>, <<"'", "a", "'", " ", "+", " ", "1">>, <<"'", "a", "b", "c", "'">>, <<"'", "a", "'", " ", "*", " ", "2">>, <<"N", "o", "n", "e">>, <<"e", "x", "i", "t">>,
      <<"e", "x", "i", "t", "(", ")">>, <<"1", " ", "+", " ", "e", "x", "i", "t", "(", ")">> }

MathParams ==
    { MakeDict(<< <<"expression", e>> >>) :
        e \in {Absent, PyInt(5), None} \cup {Str(x) : x \in Expressions} }

UnitParams ==
    { MakeDict(<< <<"value", v>>, <<"from_unit", f>>, <<"to_unit", t>> >>) :
        v \in {Absent, PyInt(10), Str(<<"3">>), Str(<<"t", "e", "n">>)},
        f \in {Absent, Str(km), Str(feet), Str(Parsec)},
        t \in {Absent, Str(miles), Str(inches), Str(KmCapital), PyInt(1)} }

BaseDates ==
    { <<"0", "0", "0", "1", "-", "0", "1", "-", "0", "1">>, <<"0", "0", "0", "1", "-", "0", "1", "-", "0", "3">>, <<"1", "9", "0", "0", "-", "0", "2", "-", "2", "8">>, <<"2", "0", "0", "0", "-", "0", "2", "-", "2", "8">>, <<"2", "0", "2", "3", "-", "1", "2", "-", "3", "1">>,
      <<"2", "0", "2", "4", "-", "0", "2", "-", "2", "9">>, <<"2", "0", "2", "4", "-", "0", "3", "-", "0", "1">>, <<"9", "9", "9", "9", "-", "1", "2", "-", "3", "0">>, <<"9", "9", "9", "9", "-", "1", "2", "-", "3", "1">> }

DayCounts == ((0 - MaxDays)..MaxDays) \cup {-366, 365, 1000000000, -1000000000}

\* every combination of present, absent and ill-formed fields
DateParams ==
    { MakeDict(<< <<"operation", o>>, <<"base_date", b>>, <<"days", d>>, <<"second_date", s>> >>) :
        o \in {Absent, Str(get_current), Str(add_days), Str(subtract_days), Str(diff_days),
               Str(Noop)},
        b \in {Absent, Str(<<"2", "0", "2", "4", "-", "0", "2", "-", "2", "8">>), Str(<<"2", "0", "2", "3", "-", "0", "2", "-", "3", "0">>)},
        d \in {Absent, PyInt(2), Str(<<"t", "w", "o">>)},
        s \in {Absent, Str(<<"2", "0", "2", "3", "-", "1", "2", "-", "3", "1">>)} }

\* add_days and subtract_days over the base dates and day counts
DateShiftParams ==
    { MakeDict(<< <<"operation", Str(o)>>, <<"base_date", Str(b)>>, <<"days", PyInt(d)>> >>) :
        o \in {add_days, subtract_days}, b \in BaseDates, d \in DayCounts }

DateDiffParams ==
    { MakeDict(<< <<"operation", Str(diff_days)>>, <<"base_date", Str(b)>>,
                  <<"second_date", Str(s)>> >>) : b \in BaseDates, s \in BaseDates }

TextAlphabet == {"r", "R", "s"}

Texts == StringsUpTo(TextAlphabet, MaxTextLen) \cup { <<"S", "t", "r", "a", "w", "b", "e", "r", "r", "y">>, <<"s", "t", "r", "a", "w", "b", "e", "r", "r", "y">> }

Characters == StringsUpTo(TextAlphabet, MaxCharLen) \cup { <<"S">> }

TextParams ==
    { MakeDict(<< <<"text", t>>, <<"character", c>>, <<"case_sensitive", s>> >>) :
        t \in {Absent} \cup {Str(x) : x \in Texts},
        c \in {Absent} \cup {Str(x) : x \in Characters},
        s \in {Absent, PyBool(TRUE), PyBool(FALSE), Str(<<"y", "e", "s">>)} }

\* mappings given to every tool name, registered or not
AnyToolParams ==
    { Dict(<<>>), None, PyInt(5),
      MakeDict(<< <<"expression", Str(<<"5", " ", "+", " ", "3", " ", "*", " ", "2">>)>> >>),
      MakeDict(<< <<"value", PyInt(10)>>, <<"from_unit", Str(km)>>, <<"to_unit", Str(miles)>> >>),
      MakeDict(<< <<"operation", Str(get_current)>> >>),
      MakeDict(<< <<"text", Str(<<"s", "t", "r", "a", "w", "b", "e", "r", "r", "y">>)>>, <<"character", Str(<<"r">>)>> >>) }

Invocations ==
    { <<n, p>> : n \in ToolNames, p \in AnyToolParams }
        \cup { <<ToolMath, p>> : p \in MathParams }
        \cup { <<ToolUnitConversion, p>> : p \in UnitParams }
        \cup { <<ToolDate, p>> : p \in DateParams \cup DateShiftParams \cup DateDiffParams }
        \cup { <<ToolTextAnalysis, p>> : p \in TextParams }

\* call_tool(tool_name, params) runs
CallTool ==
    /\ outcome.status = "pending"
    /\ \E today \in Todays : outcome' = call_tool(tool_name, params, today)
    /\ UNCHANGED <<pc, messages, assistant_message, idx, sent, printed, tool_name, params, prev>>

\* the date that add_days or subtract_days returned becomes the second_date of a
\* diff_days request with the same base_date
ChainDiffDays ==
    /\ prev = <<>>
    /\ tool_name = ToolDate
    /\ outcome.status = "returned" /\ outcome.class = ""
    /\ Get(Items(params), "operation") \in {Str(add_days), Str(subtract_days)}
    /\ prev' = <<params, outcome>>
    /\ params' = MakeDict(<< <<"operation", Str(diff_days)>>,
                             <<"base_date", Get(Items(params), "base_date")>>,
                             <<"second_date", Str(outcome.ret)>> >>)
    /\ outcome' = NotCalled
    /\ UNCHANGED <<pc, messages, assistant_message, idx, sent, printed, tool_name>>

InitTool ==
    /\ pc = "idle"
    /\ messages = <<>>
    /\ assistant_message = NoMessage
    /\ idx = 0
    /\ sent = <<>>
    /\ printed = <<>>
    /\ \E inv \in Invocations : tool_name = inv[1] /\ params = inv[2]
    /\ outcome = NotCalled
    /\ prev = <<>>

NextTool == CallTool \/ ChainDiffDays

SpecTool == InitTool /\ [][NextTool]_vars

-----------------------------------------------------------------------------
(* The claims about call_tool and the tool functions, under SpecTool *)

\* the latest invocation has ended
Called == outcome.status # "pending"

\* params[k] and k in params, of the latest invocation
Param(k) == Get(Items(params), k)
Present(k) == HasKey(Items(params), k)

\* s begins with p
StartsWith(s, p) == Len(s) >= Len(p) /\ SubSeq(s, 1, Len(p)) = p

\* sub occurs somewhere in s
Contains(s, sub) == \E i \in 1..(Len(s) + 1) : OccursAt(s, sub, i)

\* C1: call_tool never propagates an exception: whatever the tool name and the
\* argument mapping, the invocation ends by returning a string.
C1_NeverPropagates == Called => outcome.status = "returned"

\* C5 as written: for a name that is none of the four registered tools call_tool
\* returns the string "Unknown tool: {name}", having constructed no input
\* schema and run no tool function.
C5_UnknownToolAsWritten ==
    (Called /\ tool_name \notin RegisteredTools) =>
        /\ outcome.status = "returned"
        /\ outcome.ret = MsgUnknownTool \o tool_name
        /\ outcome.schema = <<>> /\ ~outcome.built /\ outcome.ran = <<>>

\* C5 amended: for a name that is none of the four registered tools call_tool
\* returns the string "Error: Unknown tool: {name}", having constructed no input
\* schema and run no tool function, and raises nothing.
C5_UnknownTool ==
    (Called /\ tool_name \notin RegisteredTools) =>
        /\ outcome.status = "returned"
        /\ outcome.ret = ErrorPrefix \o MsgUnknownTool \o tool_name
        /\ outcome.schema = <<>> /\ ~outcome.built /\ outcome.ran = <<>>

\* an unregistered name was given together with arguments that would suit a tool
C5_Witness == Called /\ tool_name = ToolMathCapital /\ Present("expression")

\* the fields each schema marks required, and the enumerated fields
RequiredFields(name) ==
    CASE name = ToolMath -> {"expression"}
      [] name = ToolUnitConversion -> {"value", "from_unit", "to_unit"}
      [] name = ToolDate -> {"operation"}
      [] name = ToolTextAnalysis -> {"text", "character"}
      [] OTHER -> {}

EnumFields(name) ==
    CASE name = ToolUnitConversion -> {"from_unit", "to_unit"}
      [] name = ToolDate -> {"operation"}
      [] OTHER -> {}

Allowed(name) == IF name = ToolUnitConversion THEN LengthUnit ELSE DateOperation

MissingRequired == \E k \in RequiredFields(tool_name) : ~Present(k)

OutsideEnum ==
    \E k \in EnumFields(tool_name) :
        Present(k) /\ ~(Param(k)[1] = "str" /\ Param(k)[2] \in Allowed(tool_name))

\* C6: a tool function runs only on a request that passed validation: when a
\* required field is absent or an enumerated field holds a value outside its
\* set, no input is constructed, no tool function runs, and call_tool returns
\* a string that begins with "Error: ".
C6_ValidatedOnly ==
    Called =>
        /\ outcome.ran # <<>> =>
              outcome.built /\ params[1] = "dict" /\ ~MissingRequired /\ ~OutsideEnum
        /\ (tool_name \in RegisteredTools /\ (MissingRequired \/ OutsideEnum)) =>
              /\ ~outcome.built /\ outcome.ran = <<>>
              /\ outcome.status = "returned"
              /\ StartsWith(outcome.ret, ErrorPrefix)

\* unit_conversion was given all three fields, to_unit outside the units
C6_Witness ==
    /\ Called /\ tool_name = ToolUnitConversion
    /\ Param("value") = PyInt(10) /\ Param("from_unit") = Str(km)
    /\ Param("to_unit") = Str(KmCapital)

\* the fields an operation of date_tool needs, and their names as text
NeededFields(op) ==
    CASE op \in {add_days, subtract_days} -> {"base_date", "days"}
      [] op = diff_days -> {"base_date", "second_date"}
      [] OTHER -> {}

FieldText(k) ==
    CASE k = "base_date" -> <<"b", "a", "s", "e", "_", "d", "a", "t", "e">>
      [] k = "days" -> <<"d", "a", "y", "s">>
      [] OTHER -> <<"s", "e", "c", "o", "n", "d", "_", "d", "a", "t", "e">>

\* C9: date_tool, given a validated input, fails with a message that names the
\* missing fields and produces no date whenever the operation lacks a field it
\* needs; call_tool then returns "Error: " followed by that message;
\* get_current succeeds with a date whatever other fields are present.
C9_MissingFields ==
    (Called /\ tool_name = ToolDate /\ outcome.built) =>
        LET op == Param("operation")[2]
            missing == {k \in NeededFields(op) : ~Present(k)}
        IN  /\ missing # {} =>
                  /\ outcome.status = "returned" /\ outcome.class = "ValueError"
                  /\ \E today \in Todays :
                        outcome.ret = ErrorPrefix \o date_tool(DateInput(params)[2], today)[3]
                  /\ \A k \in missing : Contains(outcome.ret, FieldText(k))
                  /\ Contains(outcome.ret, op)
                  /\ outcome.value = Absent
            /\ op = get_current =>
                  /\ outcome.status = "returned" /\ outcome.class = ""
                  /\ outcome.ret \in {DateStr(today) : today \in Todays}

\* diff_days was asked with a base_date and without a second_date
C9_Witness ==
    /\ Called /\ tool_name = ToolDate /\ outcome.built
    /\ Param("operation") = Str(diff_days)
    /\ Present("base_date") /\ ~Present("second_date")

\* C10: call_tool("math", ...) returns the string form of a result only when the
\* expression evaluated to a number; otherwise it returns "Error: Invalid
\* expression: " followed by the cause.
C10_NumbersOnly ==
    (Called /\ tool_name = ToolMath /\ outcome.status = "returned" /\ outcome.built) =>
        \/ IsNumber(outcome.value) /\ outcome.ret = PyStr(outcome.value)
        \/ /\ outcome.class = "ValueError"
           /\ StartsWith(outcome.ret, ErrorPrefix \o MsgInvalidExpression)

\* date a is before date b, compared field by field
DateBefore(a, b) ==
    \/ a[2] < b[2]
    \/ a[2] = b[2] /\ a[3] < b[3]
    \/ a[2] = b[2] /\ a[3] = b[3] /\ a[4] < b[4]

\* C7: when add_days(base, n) succeeds, diff_days of base and its result is
\* str(n); subtract_days(base, n) gives the date of add_days(base, -n), so
\* diff_days of base and its result is str(-n); and diff_days is negative
\* exactly when second_date is before base_date.
C7_AddThenDiff ==
    /\ (Called /\ prev # <<>>) =>
          LET n == Get(Items(prev[1]), "days")[2]
          IN  /\ outcome.status = "returned" /\ outcome.class = ""
              /\ outcome.ret = IntToStr(IF Get(Items(prev[1]), "operation") = Str(add_days)
                                        THEN n ELSE 0 - n)
    /\ (Called /\ tool_name = ToolDate /\ outcome.class = "" /\ outcome.status = "returned"
            /\ Param("operation") = Str(subtract_days) /\ Param("days")[1] = "int") =>
          Str(outcome.ret) = AddDays(ParseIsoDate(Param("base_date")[2]), 0 - Param("days")[2])[2]
    /\ (Called /\ tool_name = ToolDate /\ outcome.class = "" /\ outcome.status = "returned"
            /\ Param("operation") = Str(diff_days)) =>
          (outcome.ret[1] = "-") <=>
              DateBefore(ParseIsoDate(Param("second_date")[2]), ParseIsoDate(Param("base_date")[2]))

\* add_days went back over the end of February of a leap year and diff_days
\* was asked of its result
C7_Witness ==
    /\ Called /\ prev # <<>>
    /\ Get(Items(prev[1]), "operation") = Str(add_days)
    /\ Get(Items(prev[1]), "base_date") = Str(<<"2", "0", "2", "4", "-", "0", "3", "-", "0", "1">>)
    /\ Get(Items(prev[1]), "days") = PyInt(-2)

\* the largest number of occurrences of sub in s no two of which overlap
NonOverlapping(s, sub) ==
    IF sub = <<>> THEN Len(s) + 1
    ELSE LET occ == {i \in 1..Len(s) : OccursAt(s, sub, i)}
             apart == {P \in SUBSET occ :
                          \A i \in P, j \in P : i < j => j - i >= Len(sub)}
         IN  CHOOSE n \in 0..Len(s) :
                 /\ \E P \in apart : Cardinality(P) = n
                 /\ \A P \in apart : Cardinality(P) <= n

-----------------------------------------------------------------------------
(* The claims about handle_conversation, under Spec *)

IsPrefix(a, b) == Len(a) <= Len(b) /\ SubSeq(b, 1, Len(a)) = a

\* the messages of b after its prefix a are one assistant message and then
\* tool messages only, or none at all
OneRound(a, b) ==
    /\ IsPrefix(a, b)
    /\ Len(b) > Len(a) => b[Len(a) + 1].role = RoleAssistant
    /\ \A i \in (Len(a) + 2)..Len(b) : b[i].role = RoleTool

TranscriptShape ==
    pc # "idle" =>
        /\ Len(messages) >= 1
        /\ messages[1] = UserMessage(printed[1][2])
        /\ sent # <<>> => sent[1] = <<messages[1]>>
        /\ \A r \in 1..(Len(sent) - 1) :
              OneRound(sent[r], sent[r + 1]) /\ Len(sent[r + 1]) > Len(sent[r])
        /\ sent # <<>> => OneRound(sent[Len(sent)], messages)

\* C3: the transcript starts as the one user message holding the query, a step
\* never removes, reorders or changes a message, each round appends one
\* assistant message and then tool messages only, and the transcript sent in
\* a round has the transcript sent in the round before as a prefix.
C3_AppendOnly ==
    [][/\ pc # "idle" => IsPrefix(messages, messages')
       /\ pc = "idle" => messages' = <<UserMessage(printed'[1][2])>>
       /\ TranscriptShape']_vars

\* two requests were sent, the second after a round with two tool results
C3_Witness == Len(sent) = 2 /\ Len(sent[2]) = 4 /\ Len(messages) >= 5

\* handle_conversation has stopped
Stopped == pc \in {"done", "raised"}

\* a request was issued after the last assistant turn
RequestedAgain == sent # <<>> /\ sent[Len(sent)] = messages

\* C2: the loop stops exactly at the first assistant turn without tool calls,
\* where it prints the content as the answer and sends no further request;
\* after a turn with tool calls it does not stop before it has issued another
\* request.
C2_StopsAtAnswerOnly ==
    assistant_message # NoMessage =>
        /\ assistant_message.tool_calls = <<>> =>
              /\ pc = "done"
              /\ printed[Len(printed)] = <<"Agent Response", assistant_message.content>>
              /\ messages[Len(messages)] = assistant_message
              /\ sent[Len(sent)] = SubSeq(messages, 1, Len(messages) - 1)
              /\ \A j \in 1..(Len(messages) - 1) :
                    messages[j].role = RoleAssistant => messages[j].tool_calls # <<>>
        /\ assistant_message.tool_calls # <<>> => (Stopped => pc = "raised" /\ RequestedAgain)

\* C4: once the loop is past a turn with k tool calls, exactly k tool messages
\* follow that assistant message, the i-th with the identifier of the i-th
\* call and the string call_tool returned for it, and the next message, if
\* any, is the next assistant turn.
C4_ResultsFollowCalls ==
    pc \in {"await", "done", "raised"} =>
        \A j \in 1..Len(messages) :
            LET calls == messages[j].tool_calls
                k == Len(calls)
            IN  (messages[j].role = RoleAssistant /\ k >= 1) =>
                    /\ j + k <= Len(messages)
                    /\ \A i \in 1..k :
                          /\ messages[j + i].role = RoleTool
                          /\ messages[j + i].tool_call_id = calls[i].id
                          /\ LET loaded == JsonLoads(calls[i].arguments)
                             IN  /\ loaded[1] = "ok"
                                 /\ \E today \in Todays :
                                       LET r == call_tool(calls[i].name, loaded[2], today)
                                       IN  r.status = "returned" /\ messages[j + i].content = r.ret
                    /\ j + k < Len(messages) => messages[j + k + 1].role = RoleAssistant

=============================================================================
